---- MODULE Spec2Model ----
(***************************************************************************)
(* LawBot chat relay: the provider dispatcher of chatbot/views.py          *)
(* (get_ai_response_external_only and the three try_* attempt functions),  *)
(* its two callers (chat_api and the legacy get_ai_response), the message  *)
(* store the attempts read, and the error_occurred receiver of             *)
(* chatbot/signals.py.                                                     *)
(*                                                                         *)
(* One request is served at a time.  A request is a sequence of steps:     *)
(* the caller's entry, one step per `if` of the dispatcher (lines 163,     *)
(* 169, 175, 181), one step per model of the alternative-model loop, and   *)
(* the caller's continuation after the dispatcher returned or raised.      *)
(* The provider's answer to each outbound POST and the behaviour of the    *)
(* error_occurred receiver at each send are chosen by the environment.     *)
(***************************************************************************)
EXTENDS Integers, Sequences, FiniteSets, TLC

(***************************************************************************)
(* Bounds of the model.                                                    *)
(***************************************************************************)
\* number of requests served in one behaviour
MaxRequests == 1

(***************************************************************************)
(* Values of the environment.                                              *)
(***************************************************************************)
\* settings.OPENAI_API_KEY: absent/empty, a standard key, an OpenRouter key
Credentials == {"", "sk-test123", "sk-or-v1-abc"}

\* request bodies offered to chat_api: "" fails ChatRequestSerializer
UserInputs == {"", "What is a tort?"}

\* the text a provider puts in choices[0].message.content
ReplyText == "A tort is..."

\* What one requests.post can do.  exc is the exception it raises ("None":
\* it returned a response), status the HTTP status of the response, text its
\* raw body, json_ok whether resp.json()["choices"][0]["message"]["content"]
\* can be read from the body, and content what is read there.
Resp(exc, status, json_ok, content, text) ==
    [exc |-> exc, status |-> status, json_ok |-> json_ok, content |-> content, text |-> text]

Responses ==
    { Resp("None", 200, TRUE, ReplyText, "{choices}"),
      Resp("None", 200, FALSE, "", "{}"),
      Resp("None", 401, FALSE, "", "Unauthorized"),
      Resp("None", 429, FALSE, "", "Too Many Requests"),
      Resp("None", 500, FALSE, "", "Internal Server Error"),
      Resp("Timeout", 0, FALSE, "", ""),
      Resp("ConnectionError", 0, FALSE, "", "") }

\* What the error_occurred receiver does when the signal is sent: it runs to
\* its end, or it raises (Signal.send lets a receiver's exception propagate).
ReceiverOutcomes == {"ok", "raises"}

ErrorTypes ==
    {"auth_error", "rate_limit", "api_error", "timeout", "network_error",
     "configuration_error", "all_apis_failed"}

(***************************************************************************)
(* Constants of the code.                                                  *)
(***************************************************************************)
OPENAI_URL == "https://api.openai.com/v1/chat/completions"
OPENROUTER_URL == "https://openrouter.ai/api/v1/chat/completions"
OPENROUTER_PREFIX == "sk-or-"

\* try_alternative_openai_api: models_to_try
models_to_try == <<"gpt-3.5-turbo", "gpt-4", "gpt-4-turbo-preview">>

system_prompt ==
    [role |-> "system",
     content |-> "You are a legal assistant. Provide general legal information, but always say: 'This is not legal advice.'"]

ALL_FAILED_MSG ==
    "All external AI services are currently unavailable. Please check your API key configuration or try again later."

CONFIG_ERROR_MSG ==
    "OpenAI API key is not configured. Please set the OPENAI_API_KEY environment variable."

\* a key a returned dict does not have
Absent == "<absent>"

\* the value of a variable that holds nothing yet
Nothing == [success |-> FALSE, response |-> Absent, error |-> Absent, error_type |-> Absent, raised |-> "None"]

(***************************************************************************)
(* Pure helpers.                                                           *)
(***************************************************************************)
\* str.startswith
startswith(s, prefix) ==
    Len(s) >= Len(prefix) /\ SubSeq(s, 1, Len(prefix)) = prefix

\* Python truth value of the credential: None and "" are false
truthy(key) == key # ""

\* the exception classes of requests.exceptions, as isinstance sees them
IsInstance(exc, cls) ==
    \/ cls = "Exception"
    \/ exc = cls
    \/ cls = "RequestException" /\ exc \in {"Timeout", "ConnectionError"}

\* [{"role": m.role, "content": m.content} for m in Message.objects.all()]
\* with the system prompt inserted at index 0
messages_for_gpt(rows) ==
    <<system_prompt>> \o [i \in 1..Len(rows) |-> [role |-> rows[i].role, content |-> rows[i].content]]

\* the dicts the attempt functions return
Success(reply) ==
    [success |-> TRUE, response |-> reply, error |-> Absent, error_type |-> Absent, raised |-> "None"]

Failure(msg, kind) ==
    [success |-> FALSE, response |-> Absent, error |-> msg, error_type |-> kind, raised |-> "None"]

\* an exception leaving a function instead of a returned dict
Raised(exc) ==
    [success |-> FALSE, response |-> Absent, error |-> Absent, error_type |-> Absent, raised |-> exc]

(***************************************************************************)
(* The attempt functions, as functions of what the provider answered       *)
(* (resp) and of what the error_occurred receiver did if it was called     *)
(* (recv).                                                                 *)
(***************************************************************************)
\* the if/elif/else on resp.status_code of a non-200 response
status_error_type(status) ==
    IF status = 401 THEN "auth_error"
    ELSE IF status = 429 THEN "rate_limit"
    ELSE "api_error"

\* TRUE when the attempt reaches an error_occurred.send: the POST returned a
\* response and its status is not 200
attempt_sends(resp) == resp.exc = "None" /\ resp.status # 200

\* The exception raised inside the try block of try_openai_api and of
\* try_openrouter_api ("None": the block returns): by requests.post, by
\* reading the reply out of a 200 body, or by error_occurred.send.
raised_in_attempt(resp, recv) ==
    IF resp.exc # "None" THEN resp.exc
    ELSE IF resp.status = 200 THEN (IF resp.json_ok THEN "None" ELSE "KeyError")
    ELSE IF recv = "raises" THEN "ReceiverError"
    ELSE "None"

\* mutant of the except clauses: RequestException tested before its
\* subclass Timeout
except_error_type_swapped(exc) ==
    IF IsInstance(exc, "RequestException") THEN "network_error"
    ELSE IF IsInstance(exc, "Timeout") THEN "timeout"
    ELSE "api_error"

\* the three except clauses, in the order of the source
except_error_type(exc) ==
    IF IsInstance(exc, "Timeout") THEN "timeout"
    ELSE IF IsInstance(exc, "RequestException") THEN "network_error"
    ELSE "api_error"

openai_status_msg(resp) ==
    IF resp.status = 401 THEN "Invalid OpenAI API key. Please check your API key configuration."
    ELSE IF resp.status = 429 THEN "Rate limit exceeded. Please try again later."
    ELSE "OpenAI API Error (Status " \o ToString(resp.status) \o "): " \o resp.text

openai_except_msg(exc) ==
    IF IsInstance(exc, "Timeout") THEN "OpenAI API request timed out. Please try again."
    ELSE IF IsInstance(exc, "RequestException") THEN "OpenAI API network error: " \o exc
    ELSE "OpenAI API error: " \o exc

openrouter_status_msg(resp) ==
    IF resp.status = 401 THEN "Invalid OpenRouter API key. Please check your API key configuration."
    ELSE IF resp.status = 429 THEN "OpenRouter rate limit exceeded. Please try again later."
    ELSE "OpenRouter API Error (Status " \o ToString(resp.status) \o "): " \o resp.text

openrouter_except_msg(exc) ==
    IF IsInstance(exc, "Timeout") THEN "OpenRouter API request timed out. Please try again."
    ELSE IF IsInstance(exc, "RequestException") THEN "OpenRouter API network error: " \o exc
    ELSE "OpenRouter API error: " \o exc

\* what try_openai_api returns
try_openai_api(resp, recv) ==
    LET exc == raised_in_attempt(resp, recv) IN
    IF exc # "None" THEN Failure(openai_except_msg(exc), except_error_type(exc))
    ELSE IF resp.status = 200 THEN Success(resp.content)
    ELSE Failure(openai_status_msg(resp), status_error_type(resp.status))

\* what try_openrouter_api returns
try_openrouter_api(resp, recv) ==
    LET exc == raised_in_attempt(resp, recv) IN
    IF exc # "None" THEN Failure(openrouter_except_msg(exc), except_error_type(exc))
    ELSE IF resp.status = 200 THEN Success(resp.content)
    ELSE Failure(openrouter_status_msg(resp), status_error_type(resp.status))

\* One pass of the loop body of try_alternative_openai_api: "return" with the
\* reply on a readable 200, "continue" otherwise (401, 429, an exception, and
\* any other status, which falls out of the if/elif to the next iteration).
\* mutant: the loop returns at any 200, without reading the body
alt_iteration_any_200(resp) ==
    IF resp.exc = "None" /\ resp.status = 200 THEN "return" ELSE "continue"

alt_iteration(resp) ==
    IF resp.exc = "None" /\ resp.status = 200 /\ resp.json_ok THEN "return" ELSE "continue"

(***************************************************************************)
(* The branches of get_ai_response_external_only.                          *)
(***************************************************************************)
\* mutants of the branch conditions: line 169 without its prefix test, line
\* 175 without its test of the credential, line 175 restricted to standard
\* keys, and a dispatcher that never returns a stage's success
takes_openrouter_branch_any_key(key) == truthy(key)

takes_alternative_branch_unconditional(key) == TRUE

takes_alternative_branch_standard_only(key) == truthy(key) /\ ~startswith(key, OPENROUTER_PREFIX)

returns_early_never(result) == FALSE

\* line 163: if OPENAI_API_KEY and not OPENAI_API_KEY.startswith('sk-or-')
takes_openai_branch(key) == truthy(key) /\ ~startswith(key, OPENROUTER_PREFIX)

\* line 169: if OPENAI_API_KEY and OPENAI_API_KEY.startswith('sk-or-')
takes_openrouter_branch(key) == truthy(key) /\ startswith(key, OPENROUTER_PREFIX)

\* line 175: if OPENAI_API_KEY
takes_alternative_branch(key) == truthy(key)

\* lines 165, 171, 177: if response.get('success'): return response
returns_early(result) == result.success

(***************************************************************************)
(* Saving a turn: message_pre_save (signals.py lines 32-42).               *)
(***************************************************************************)
\* the truncation threshold and the length kept before the "..."
MAX_CONTENT_LEN == 5000
TRUNCATED_LEN == 4997

\* ChatRequestSerializer: message = CharField(max_length=1000, min_length=1)
MESSAGE_MAX_LENGTH == 1000
MESSAGE_MIN_LENGTH == 1

\* the characters str.strip() removes (those that occur in the inputs)
Whitespace == {" ", "\t", "\n"}

IsSpaceAt(s, i) == SubSeq(s, i, i) \in Whitespace

\* the last i characters of s are whitespace
EndsWithSpaces(s, i) == \A j \in 1..i : IsSpaceAt(s, Len(s) + 1 - j)

\* str.strip(): s without its leading and trailing whitespace
strip(s) ==
    IF \A i \in 1..Len(s) : IsSpaceAt(s, i) THEN ""
    ELSE SubSeq(s,
                CHOOSE i \in 1..Len(s) : ~IsSpaceAt(s, i) /\ \A j \in 1..(i - 1) : IsSpaceAt(s, j),
                Len(s) - (CHOOSE i \in 0..Len(s) : EndsWithSpaces(s, i) /\ ~EndsWithSpaces(s, i + 1)))

\* line 36: not instance.content or instance.content.strip() == ""
pre_save_raises(content) == content = "" \/ strip(content) = ""

\* mutant of the truncation: the content is cut at the threshold and the
\* dots are added to it
pre_save_content_cut_at_max(content) ==
    IF Len(content) > MAX_CONTENT_LEN
    THEN SubSeq(content, 1, MAX_CONTENT_LEN) \o "..."
    ELSE content

\* lines 40-41: instance.content[:4997] + "..." when len(content) > 5000
pre_save_content(content) ==
    IF Len(content) > MAX_CONTENT_LEN
    THEN SubSeq(content, 1, TRUNCATED_LEN) \o "..."
    ELSE content

(***************************************************************************)
(* State.                                                                  *)
(***************************************************************************)
VARIABLES
    OPENAI_API_KEY,  \* views.OPENAI_API_KEY, read from the settings at import
    store,           \* the Message table, in insertion order
    error_count,     \* the cache entries error_count_<error_type>
    n_requests,      \* requests begun so far
    entry,           \* the caller of the running (or last) dispatch
    user_input,      \* its message
    pc,              \* where the running request is
    model_idx,       \* index into models_to_try of the alternative-model loop
    calls,           \* the outbound POSTs of the running (or last) request
    notifications,   \* the error_occurred.send calls of that request
    stages,          \* the attempt functions called, with what they returned
    outcome,         \* what the dispatcher gave its caller
    http,            \* what the view answered
    store_at_entry,  \* the Message table as the running request found it
    workers,         \* the requests served at the same time, one per thread
    emitted,         \* error_occurred.send calls of those requests, per type
    rate_limit,      \* the cache entry rate_limit_<client_ip>
    mw,              \* the threads inside RateLimitingMiddleware
    n_api,           \* /api/ requests that entered the middleware
    reached_view,    \* /api/ requests the middleware let through
    rejected,        \* /api/ requests the middleware answered itself
    last_request     \* the last request the middleware finished with

\* the state of the threaded specifications of this module, which the
\* one-request-at-a-time actions leave alone
other_vars == <<workers, emitted, rate_limit, mw, n_api, reached_view, rejected, last_request>>

vars ==
    <<OPENAI_API_KEY, store, error_count, n_requests, entry, user_input, pc,
      model_idx, calls, notifications, stages, outcome, http, store_at_entry,
      other_vars>>

NoHttp == [status |-> 0, error |-> Absent, error_type |-> Absent, response |-> Absent, message_id |-> 0]

HttpError(code, msg, kind) ==
    [status |-> code, error |-> msg, error_type |-> kind, response |-> Absent, message_id |-> 0]

HttpOk(reply, id) ==
    [status |-> 200, error |-> Absent, error_type |-> Absent, response |-> reply, message_id |-> id]

\* the exception left the view: the view produced no response of its own
HttpUnhandled == [status |-> 0, error |-> Absent, error_type |-> "unhandled_exception", response |-> Absent, message_id |-> 0]

\* Message.objects.create(role=..., content=...) when message_pre_save does
\* not raise: the row holds the content as the handler left it
create(rows, role, content) ==
    Append(rows, [id |-> Len(rows) + 1, role |-> role, content |-> pre_save_content(content)])

\* one outbound requests.post
Call(stage, url, model, key, rows, resp) ==
    [stage |-> stage, url |-> url, model |-> model, authorization |-> "Bearer " \o key,
     messages |-> messages_for_gpt(rows), resp |-> resp]

\* one error_occurred.send; after_calls is the number of POSTs made before it
Notification(sender, kind, msg, recv, n) ==
    [sender |-> sender, error_type |-> kind, error_message |-> msg, recv |-> recv, after_calls |-> n]

\* handle_error_occurred: the receiver counts the error in the cache, unless
\* it raises before it gets there (the one-hour expiry of the cache entry is
\* not modelled: a behaviour stays within one cache window)
handle_error_occurred(counts, kind, recv) ==
    IF recv = "ok" THEN [counts EXCEPT ![kind] = @ + 1] ELSE counts

\* serializer.is_valid(): the CharField trims the value, refuses a blank one
\* and applies min_length and max_length to what is left
is_valid(msg) ==
    /\ strip(msg) # ""
    /\ Len(strip(msg)) >= MESSAGE_MIN_LENGTH
    /\ Len(strip(msg)) <= MESSAGE_MAX_LENGTH

\* the variables of the one-request-at-a-time specifications before the
\* first request, but for the credential
InitRequest ==
    /\ store = <<>>
    /\ error_count = [k \in ErrorTypes |-> 0]
    /\ n_requests = 0
    /\ entry = "none"
    /\ user_input = ""
    /\ pc = "idle"
    /\ model_idx = 0
    /\ calls = <<>>
    /\ notifications = <<>>
    /\ stages = <<>>
    /\ outcome = Nothing
    /\ http = NoHttp
    /\ store_at_entry = <<>>

\* the threads of a multi-threaded server
Threads == {1, 2}

\* a thread's request: where it is, the messages arrays it posted, the local
\* messages_for_gpt of the attempt function it is in, its place in
\* models_to_try, the notification it is delivering (its type, the counter
\* value cache.get returned, where it goes on afterwards), the dispatcher's
\* result and the answer
IdleWorker ==
    [pc |-> "idle", sent |-> <<>>, request_messages |-> <<>>, model_idx |-> 0,
     pending |-> Absent, read |-> 0, after |-> Absent, result |-> Nothing, http |-> NoHttp]

IdleMw == [pc |-> "idle", request_count |-> 0]

NoRequest == [path |-> Absent, status |-> 0, error_type |-> Absent, counted |-> FALSE]

\* the threaded state before the first request
InitThreads ==
    /\ workers = [t \in Threads |-> IdleWorker]
    /\ emitted = [k \in ErrorTypes |-> 0]
    /\ rate_limit = 0
    /\ mw = [t \in Threads |-> IdleMw]
    /\ n_api = 0
    /\ reached_view = 0
    /\ rejected = 0
    /\ last_request = NoRequest

Init ==
    /\ OPENAI_API_KEY \in Credentials
    /\ InitRequest
    /\ InitThreads

\* what every entry point resets: the logs kept of the previous request;
\* limit is the number of requests the behaviour serves
BeginUpTo(limit, who, msg) ==
    /\ pc = "idle"
    /\ n_requests < limit
    /\ n_requests' = n_requests + 1
    /\ entry' = who
    /\ user_input' = msg
    /\ model_idx' = 0
    /\ calls' = <<>>
    /\ notifications' = <<>>
    /\ stages' = <<>>
    /\ outcome' = Nothing
    /\ store_at_entry' = store
    /\ UNCHANGED <<OPENAI_API_KEY, error_count, other_vars>>

Begin(who, msg) == BeginUpTo(MaxRequests, who, msg)

(***************************************************************************)
(* chat_api, up to its call of the dispatcher (lines 97-122).  inputs is   *)
(* the set of request bodies offered, limit the number of requests served. *)
(***************************************************************************)
ChatApiInvalidOf(limit, inputs) ==
    \E msg \in inputs :
        /\ BeginUpTo(limit, "chat_api", msg)
        /\ ~is_valid(msg)
        /\ http' = HttpError(400, "Invalid request data", "validation_error")
        /\ pc' = "idle"
        /\ UNCHANGED store

ChatApiInvalid == ChatApiInvalidOf(MaxRequests, UserInputs)

ChatApiNoKeyOf(limit, inputs) ==
    \E msg \in inputs :
        /\ BeginUpTo(limit, "chat_api", strip(msg))
        /\ is_valid(msg)
        /\ ~truthy(OPENAI_API_KEY)
        /\ http' = HttpError(500, CONFIG_ERROR_MSG, "configuration_error")
        /\ pc' = "idle"
        /\ UNCHANGED store

ChatApiNoKey == ChatApiNoKeyOf(MaxRequests, UserInputs)

\* lines 118-122: the user turn is saved (a valid message is not blank, so
\* message_pre_save does not raise), then the dispatcher is called
ChatApiDispatchOf(limit, inputs) ==
    \E msg \in inputs :
        /\ BeginUpTo(limit, "chat_api", strip(msg))
        /\ is_valid(msg)
        /\ truthy(OPENAI_API_KEY)
        /\ store' = create(store, "user", strip(msg))
        /\ http' = NoHttp
        /\ pc' = "L163"

ChatApiDispatch == ChatApiDispatchOf(MaxRequests, UserInputs)

(***************************************************************************)
(* get_ai_response (lines 398-400): the dispatcher called directly.        *)
(***************************************************************************)
GetAiResponseOf(limit, inputs) ==
    \E msg \in inputs :
        /\ BeginUpTo(limit, "get_ai_response", msg)
        /\ http' = NoHttp
        /\ pc' = "L163"
        /\ UNCHANGED store

GetAiResponse == GetAiResponseOf(MaxRequests, UserInputs)

(***************************************************************************)
(* get_ai_response_external_only (lines 159-191).                          *)
(***************************************************************************)
\* the receiver outcomes to choose among at an attempt: the receiver runs
\* only if the attempt sends
RecvChoices(resp) == IF attempt_sends(resp) THEN ReceiverOutcomes ELSE {"not_called"}

\* mutant: once a dispatch has failed, the dispatcher keeps failing
Return_failing_after_errors(result) ==
    /\ outcome' = IF error_count["all_apis_failed"] > 0
                  THEN Failure(ALL_FAILED_MSG, "all_apis_failed")
                  ELSE result
    /\ pc' = "returned"

\* the dispatcher hands `result` to its caller
Return(result) ==
    /\ outcome' = result
    /\ pc' = "returned"

\* lines 163-166, branch taken: try_openai_api, one POST to the OpenAI
\* endpoint with the fixed model; provider is the set of things the POST
\* can do
TryOpenAIIn(provider) ==
    /\ pc = "L163"
    /\ takes_openai_branch(OPENAI_API_KEY)
    /\ \E resp \in provider : \E recv \in RecvChoices(resp) :
        LET result == try_openai_api(resp, recv)
            kind == status_error_type(resp.status)
        IN
        /\ calls' = Append(calls, Call("try_openai_api", OPENAI_URL, "gpt-3.5-turbo", OPENAI_API_KEY, store, resp))
        /\ IF attempt_sends(resp)
           THEN /\ notifications' = Append(notifications,
                       Notification("try_openai_api", kind, openai_status_msg(resp), recv, Len(calls) + 1))
                /\ error_count' = handle_error_occurred(error_count, kind, recv)
           ELSE UNCHANGED <<notifications, error_count>>
        /\ stages' = Append(stages, [stage |-> "try_openai_api", resp |-> resp, recv |-> recv, result |-> result])
        /\ IF returns_early(result)
           THEN Return(result)
           ELSE pc' = "L169" /\ UNCHANGED outcome
    /\ UNCHANGED <<OPENAI_API_KEY, store, n_requests, entry, user_input, model_idx, http>>
    /\ UNCHANGED <<store_at_entry, other_vars>>

TryOpenAI == TryOpenAIIn(Responses)

\* line 163, branch not taken
SkipOpenAI ==
    /\ pc = "L163"
    /\ ~takes_openai_branch(OPENAI_API_KEY)
    /\ pc' = "L169"
    /\ UNCHANGED <<OPENAI_API_KEY, store, error_count, n_requests, entry, user_input,
                   model_idx, calls, notifications, stages, outcome, http>>
    /\ UNCHANGED <<store_at_entry, other_vars>>

\* lines 169-172, branch taken: try_openrouter_api, one POST to the
\* OpenRouter endpoint with the fixed model
TryOpenRouterIn(provider) ==
    /\ pc = "L169"
    /\ takes_openrouter_branch(OPENAI_API_KEY)
    /\ \E resp \in provider : \E recv \in RecvChoices(resp) :
        LET result == try_openrouter_api(resp, recv)
            kind == status_error_type(resp.status)
        IN
        /\ calls' = Append(calls, Call("try_openrouter_api", OPENROUTER_URL, "gpt-4o-mini", OPENAI_API_KEY, store, resp))
        /\ IF attempt_sends(resp)
           THEN /\ notifications' = Append(notifications,
                       Notification("try_openrouter_api", kind, openrouter_status_msg(resp), recv, Len(calls) + 1))
                /\ error_count' = handle_error_occurred(error_count, kind, recv)
           ELSE UNCHANGED <<notifications, error_count>>
        /\ stages' = Append(stages, [stage |-> "try_openrouter_api", resp |-> resp, recv |-> recv, result |-> result])
        /\ IF returns_early(result)
           THEN Return(result)
           ELSE pc' = "L175" /\ UNCHANGED outcome
    /\ UNCHANGED <<OPENAI_API_KEY, store, n_requests, entry, user_input, model_idx, http>>
    /\ UNCHANGED <<store_at_entry, other_vars>>

TryOpenRouter == TryOpenRouterIn(Responses)

\* line 169, branch not taken
SkipOpenRouter ==
    /\ pc = "L169"
    /\ ~takes_openrouter_branch(OPENAI_API_KEY)
    /\ pc' = "L175"
    /\ UNCHANGED <<OPENAI_API_KEY, store, error_count, n_requests, entry, user_input,
                   model_idx, calls, notifications, stages, outcome, http>>
    /\ UNCHANGED <<store_at_entry, other_vars>>

\* line 175, branch taken: try_alternative_openai_api is entered and builds
\* its messages and headers (lines 343-363)
EnterAlternative ==
    /\ pc = "L175"
    /\ takes_alternative_branch(OPENAI_API_KEY)
    /\ model_idx' = 1
    /\ pc' = "alt_loop"
    /\ UNCHANGED <<OPENAI_API_KEY, store, error_count, n_requests, entry, user_input,
                   calls, notifications, stages, outcome, http>>
    /\ UNCHANGED <<store_at_entry, other_vars>>

\* line 175, branch not taken
SkipAlternative ==
    /\ pc = "L175"
    /\ ~takes_alternative_branch(OPENAI_API_KEY)
    /\ pc' = "L181"
    /\ UNCHANGED <<OPENAI_API_KEY, store, error_count, n_requests, entry, user_input,
                   model_idx, calls, notifications, stages, outcome, http>>
    /\ UNCHANGED <<store_at_entry, other_vars>>

\* lines 365-392: one iteration of `for model in models_to_try`, one POST to
\* the OpenAI endpoint; after the last model the function returns its plain
\* failure and the dispatcher goes on to line 181
AltAttemptIn(provider) ==
    /\ pc = "alt_loop"
    /\ model_idx \in 1..Len(models_to_try)
    /\ \E resp \in provider :
        /\ calls' = Append(calls, Call("try_alternative_openai_api", OPENAI_URL, models_to_try[model_idx], OPENAI_API_KEY, store, resp))
        /\ IF alt_iteration(resp) = "return"
           THEN LET result == Success(resp.content) IN
                /\ stages' = Append(stages, [stage |-> "try_alternative_openai_api", resp |-> resp, recv |-> "not_called", result |-> result])
                /\ model_idx' = model_idx
                /\ IF returns_early(result)
                   THEN Return(result)
                   ELSE pc' = "L181" /\ UNCHANGED outcome
           ELSE IF model_idx < Len(models_to_try)
           THEN /\ model_idx' = model_idx + 1
                /\ UNCHANGED <<stages, outcome, pc>>
           ELSE LET result == Failure("All OpenAI models failed", Absent) IN
                /\ stages' = Append(stages, [stage |-> "try_alternative_openai_api", resp |-> resp, recv |-> "not_called", result |-> result])
                /\ model_idx' = model_idx
                /\ IF returns_early(result)
                   THEN Return(result)
                   ELSE pc' = "L181" /\ UNCHANGED outcome
    /\ UNCHANGED <<OPENAI_API_KEY, store, error_count, n_requests, entry, user_input,
                   notifications, http>>
    /\ UNCHANGED <<store_at_entry, other_vars>>

AltAttempt == AltAttemptIn(Responses)

\* mutant: the dispatcher saves its final failure as an assistant turn
AllFailed_saving_turn ==
    /\ pc = "L181"
    /\ \E recv \in ReceiverOutcomes :
        /\ notifications' = Append(notifications,
               Notification("get_ai_response_external_only", "all_apis_failed", ALL_FAILED_MSG, recv, Len(calls)))
        /\ error_count' = handle_error_occurred(error_count, "all_apis_failed", recv)
        /\ store' = create(store, "assistant", ALL_FAILED_MSG)
        /\ IF recv = "raises"
           THEN Return(Raised("ReceiverError"))
           ELSE Return(Failure(ALL_FAILED_MSG, "all_apis_failed"))
    /\ UNCHANGED <<OPENAI_API_KEY, n_requests, entry, user_input, model_idx,
                   calls, stages, http>>
    /\ UNCHANGED <<store_at_entry, other_vars>>

\* lines 180-191: the all_apis_failed notification, then the final Failure;
\* the send is outside every try block, so a raising receiver ends the
\* dispatcher with that exception
AllFailed ==
    /\ pc = "L181"
    /\ \E recv \in ReceiverOutcomes :
        /\ notifications' = Append(notifications,
               Notification("get_ai_response_external_only", "all_apis_failed", ALL_FAILED_MSG, recv, Len(calls)))
        /\ error_count' = handle_error_occurred(error_count, "all_apis_failed", recv)
        /\ IF recv = "raises"
           THEN Return(Raised("ReceiverError"))
           ELSE Return(Failure(ALL_FAILED_MSG, "all_apis_failed"))
    /\ UNCHANGED <<OPENAI_API_KEY, store, n_requests, entry, user_input, model_idx,
                   calls, stages, http>>
    /\ UNCHANGED <<store_at_entry, other_vars>>

(***************************************************************************)
(* The callers, after the dispatcher.                                      *)
(***************************************************************************)
\* get_ai_response returns what the dispatcher returned
GetAiResponseReturn ==
    /\ pc = "returned"
    /\ entry = "get_ai_response"
    /\ pc' = "idle"
    /\ UNCHANGED <<OPENAI_API_KEY, store, error_count, n_requests, entry, user_input,
                   model_idx, calls, notifications, stages, outcome, http>>
    /\ UNCHANGED <<store_at_entry, other_vars>>

\* chat_api lines 124-149: save the assistant turn and answer.  An exception
\* out of the dispatcher leaves the view before either; so does the
\* ValueError of message_pre_save when the turn to save is blank.
ChatApiRespond ==
    /\ pc = "returned"
    /\ entry = "chat_api"
    /\ IF outcome.raised # "None"
       THEN /\ http' = HttpUnhandled
            /\ UNCHANGED store
       ELSE IF outcome.success
       THEN IF pre_save_raises(outcome.response)
            THEN /\ http' = HttpUnhandled
                 /\ UNCHANGED store
            ELSE /\ store' = create(store, "assistant", outcome.response)
                 /\ http' = HttpOk(outcome.response, Len(store) + 1)
       ELSE /\ store' = create(store, "assistant", outcome.error)
            /\ http' = HttpError(500, outcome.error,
                                 IF outcome.error_type = Absent THEN "api_error" ELSE outcome.error_type)
    /\ pc' = "idle"
    /\ UNCHANGED <<OPENAI_API_KEY, error_count, n_requests, entry, user_input,
                   model_idx, calls, notifications, stages, outcome>>
    /\ UNCHANGED <<store_at_entry, other_vars>>

Next ==
    \/ ChatApiInvalid
    \/ ChatApiNoKey
    \/ ChatApiDispatch
    \/ GetAiResponse
    \/ TryOpenAI
    \/ SkipOpenAI
    \/ TryOpenRouter
    \/ SkipOpenRouter
    \/ EnterAlternative
    \/ SkipAlternative
    \/ AltAttempt
    \/ AllFailed
    \/ GetAiResponseReturn
    \/ ChatApiRespond

Spec == Init /\ [][Next]_vars

(***************************************************************************)
(* Properties.                                                             *)
(***************************************************************************)
\* the dispatcher has handed something (a dict or an exception) to its caller
Dispatched == outcome # Nothing

\* the attempts made at the first stage (try_openai_api or try_openrouter_api)
FirstStages == {i \in DOMAIN stages : stages[i].stage \in {"try_openai_api", "try_openrouter_api"}}

TypeOK ==
    /\ OPENAI_API_KEY \in Credentials
    /\ n_requests \in 0..MaxRequests
    /\ pc \in {"idle", "L163", "L169", "L175", "alt_loop", "L181", "returned"}
    /\ model_idx \in 0..Len(models_to_try)
    /\ Len(calls) <= 1 + Len(models_to_try)
    /\ entry \in {"none", "chat_api", "get_ai_response"}

\* C1 as stated: a dispatch call made with an empty or absent credential
\* ends in Failure configuration_error, with zero outbound calls.
C1_ConfigurationError ==
    (Dispatched /\ ~truthy(OPENAI_API_KEY)) =>
        /\ outcome.raised = "None"
        /\ ~outcome.success
        /\ outcome.error_type = "configuration_error"
        /\ calls = <<>>

\* C1 amended: with an empty or absent credential the dispatcher attempts no
\* stage and makes zero outbound calls, but it has no configuration check of
\* its own: it falls through to line 181, sends the all_apis_failed
\* notification and returns Failure all_apis_failed (or lets the receiver's
\* exception out).  Failure configuration_error comes from chat_api, which
\* tests the credential before it saves the turn and before it calls the
\* dispatcher: it answers 500 configuration_error and the dispatcher is
\* never entered.
C1_EmptyKeyNoCalls ==
    ~truthy(OPENAI_API_KEY) =>
        /\ calls = <<>>
        /\ stages = <<>>
        /\ pc # "alt_loop"
        /\ Dispatched =>
              /\ entry = "get_ai_response"
              /\ Len(notifications) = 1
              /\ notifications[1].error_type = "all_apis_failed"
              /\ notifications[1].after_calls = 0
              /\ IF notifications[1].recv = "ok"
                 THEN outcome = Failure(ALL_FAILED_MSG, "all_apis_failed")
                 ELSE outcome = Raised("ReceiverError")
        /\ entry = "chat_api" =>
              /\ pc = "idle"
              /\ ~Dispatched
              /\ notifications = <<>>
              /\ store = <<>>
              /\ is_valid(user_input) => http = HttpError(500, CONFIG_ERROR_MSG, "configuration_error")

C1_Witness ==
    /\ ~truthy(OPENAI_API_KEY)
    /\ entry = "get_ai_response"
    /\ pc = "idle"
    /\ outcome = Failure(ALL_FAILED_MSG, "all_apis_failed")
    /\ calls = <<>>

\* C2: with a non-empty credential that does not start with 'sk-or-', the
\* first outbound call is the Primary stage's, every other call is the
\* alternative-model stage's and is made only after the Primary stage
\* failed, and no call goes to the OpenRouter endpoint.
C2_NoOpenRouterForStandardKey ==
    (truthy(OPENAI_API_KEY) /\ ~startswith(OPENAI_API_KEY, "sk-or-")) =>
        /\ \A i \in DOMAIN calls :
              /\ calls[i].url # OPENROUTER_URL
              /\ calls[i].stage # "try_openrouter_api"
              /\ (i = 1) <=> (calls[i].stage = "try_openai_api")
              /\ (i > 1) <=> (calls[i].stage = "try_alternative_openai_api")
        /\ \A i \in DOMAIN stages : stages[i].stage # "try_openrouter_api"
        /\ (Len(calls) > 1 \/ pc \in {"L175", "alt_loop", "L181"}) =>
              /\ stages # <<>>
              /\ stages[1].stage = "try_openai_api"
              /\ ~stages[1].result.success
        /\ Dispatched => calls # <<>>

C2_Witness ==
    /\ OPENAI_API_KEY = "sk-test123"
    /\ pc = "idle"
    /\ Len(calls) = 3
    /\ calls[1].stage = "try_openai_api"
    /\ calls[1].resp.status = 401
    /\ calls[3].stage = "try_alternative_openai_api"
    /\ outcome.success

\* C3: with a credential that starts with 'sk-or-', the first outbound call
\* is the OpenRouter stage's, try_openai_api is never called, and whenever
\* the OpenRouter stage failed, whatever the kind, the dispatcher does not
\* return before the alternative-model stage has sent a request to the
\* Primary endpoint with the same credential.
C3_OpenRouterThenAlternative ==
    startswith(OPENAI_API_KEY, "sk-or-") =>
        /\ \A i \in DOMAIN stages : stages[i].stage # "try_openai_api"
        /\ \A i \in DOMAIN calls :
              /\ calls[i].stage # "try_openai_api"
              /\ calls[i].authorization = "Bearer " \o OPENAI_API_KEY
              /\ (i = 1) <=> (calls[i].stage = "try_openrouter_api")
              /\ (i = 1) <=> (calls[i].url = OPENROUTER_URL)
              /\ (i > 1) <=> (calls[i].stage = "try_alternative_openai_api")
              /\ (i > 1) <=> (calls[i].url = OPENAI_URL)
        /\ Dispatched =>
              /\ calls # <<>>
              /\ stages[1].stage = "try_openrouter_api"
              /\ ~stages[1].result.success =>
                    /\ Len(calls) >= 2
                    /\ Len(stages) = 2
                    /\ stages[2].stage = "try_alternative_openai_api"

C3_Witness ==
    /\ startswith(OPENAI_API_KEY, "sk-or-")
    /\ pc = "idle"
    /\ Len(calls) = 4
    /\ stages[1].stage = "try_openrouter_api"
    /\ stages[1].result.error_type = "auth_error"
    /\ calls[2].url = OPENAI_URL
    /\ calls[2].authorization = "Bearer " \o OPENAI_API_KEY
    /\ ~outcome.success

C5_ExhaustionIsAllApisFailed ==
    (Dispatched /\ truthy(OPENAI_API_KEY) /\ \A i \in DOMAIN stages : ~stages[i].result.success) =>
        outcome = Failure(ALL_FAILED_MSG, "all_apis_failed")

C7_EveryStageFailureNotified ==
    /\ \A i \in FirstStages :
          ~stages[i].result.success =>
              Cardinality({n \in DOMAIN notifications :
                              /\ notifications[n].sender = stages[i].stage
                              /\ notifications[n].after_calls = 1}) = 1
    /\ \A n \in DOMAIN notifications : notifications[n].sender # "try_alternative_openai_api"

\* C8: a receiver that raises changes nothing: each stage returns what it
\* returns when the notification is delivered, and the dispatcher still
\* returns its Failure all_apis_failed.
C8_NotificationFireAndForget ==
    /\ \A i \in FirstStages :
          stages[i].recv = "raises" =>
              stages[i].result =
                  IF stages[i].stage = "try_openai_api"
                  THEN try_openai_api(stages[i].resp, "ok")
                  ELSE try_openrouter_api(stages[i].resp, "ok")
    /\ \A n \in DOMAIN notifications :
          (Dispatched /\ notifications[n].sender = "get_ai_response_external_only") =>
              outcome = Failure(ALL_FAILED_MSG, "all_apis_failed")

\* C9: every dispatch call ends in one terminal state of the machine, with
\* one Success or one Failure of a known kind, never with an exception.
C9_NeverUnhandledFault ==
    Dispatched =>
        /\ pc \in {"returned", "idle"}
        /\ outcome.raised = "None"
        /\ \/ outcome.success /\ outcome.response # Absent
           \/ ~outcome.success /\ outcome.error_type \in ErrorTypes

\* C10: no two outbound requests of one dispatch have the same endpoint and
\* the same model.
C10_NoRepeatedCall ==
    \A i, j \in DOMAIN calls :
        i # j => (calls[i].url # calls[j].url \/ calls[i].model # calls[j].model)

(***************************************************************************)
(* The alternative-model stage and the shape of a dispatch.                *)
(***************************************************************************)
ALT == "try_alternative_openai_api"

\* the outbound calls of the alternative-model stage
AltCalls == {i \in DOMAIN calls : calls[i].stage = ALT}

\* the calls made before the alternative-model stage
BeforeAlt == Len(calls) - Cardinality(AltCalls)

\* the provider answered 200
Is200(resp) == resp.exc = "None" /\ resp.status = 200

\* the provider answered 200 with a body the reply can be read from
IsReadable200(resp) == Is200(resp) /\ resp.json_ok

\* C14 as stated: the alternative-model stage stops at the first model that
\* returns 200 and returns Success with that reply.
C14_AltStopsAtFirst200 ==
    \A i \in AltCalls :
        Is200(calls[i].resp) =>
            /\ i = Len(calls)
            /\ pc \in {"returned", "idle"}
            /\ outcome = Success(calls[i].resp.content)

\* C14 amended: the alternative-model stage posts the models in the order
\* gpt-3.5-turbo, gpt-4, gpt-4-turbo-preview to the OpenAI endpoint; it stops
\* at the first model that answers 200 with a readable body and returns
\* Success with that reply; 401, 429, any other status, any exception and a
\* 200 with an unreadable body move on to the next model; after the last
\* model it returns a Failure without error kind, and it sends no
\* notification of its own.
C14_AltStopsAtFirstReadable200 ==
    /\ \A i \in AltCalls :
          /\ i > BeforeAlt
          /\ i - BeforeAlt <= Len(models_to_try)
          /\ calls[i].model = models_to_try[i - BeforeAlt]
          /\ calls[i].url = OPENAI_URL
          /\ IF IsReadable200(calls[i].resp)
             THEN /\ i = Len(calls)
                  /\ pc \in {"returned", "idle"}
                  /\ outcome = Success(calls[i].resp.content)
             ELSE IF i - BeforeAlt < Len(models_to_try)
             THEN \/ i < Len(calls)
                  \/ pc = "alt_loop" /\ model_idx = i - BeforeAlt + 1
             ELSE /\ i = Len(calls)
                  /\ stages[Len(stages)].stage = ALT
                  /\ stages[Len(stages)].result = Failure("All OpenAI models failed", Absent)
                  /\ pc \in {"L181", "returned", "idle"}
    /\ \A n \in DOMAIN notifications : notifications[n].sender # ALT

C14_Witness ==
    /\ pc = "idle"
    /\ Cardinality(AltCalls) = 3
    /\ calls[Len(calls) - 2].resp.status = 401
    /\ Is200(calls[Len(calls) - 1].resp) /\ ~calls[Len(calls) - 1].resp.json_ok
    /\ IsReadable200(calls[Len(calls)].resp)
    /\ calls[Len(calls)].model = "gpt-4-turbo-preview"
    /\ outcome = Success(ReplyText)

\* the position of a call in the sequence first stage, gpt-3.5-turbo, gpt-4,
\* gpt-4-turbo-preview
Position(call) ==
    IF call.stage # ALT THEN 1
    ELSE 1 + (CHOOSE k \in 1..Len(models_to_try) : models_to_try[k] = call.model)

\* the calls of a dispatch are a prefix of that sequence, or of the sequence
\* without its first stage
IsPrefixOfStages ==
    /\ Len(calls) <= 1 + Len(models_to_try)
    /\ \/ \A i \in DOMAIN calls : Position(calls[i]) = i
       \/ \A i \in DOMAIN calls : Position(calls[i]) = i + 1

\* C19 as stated: at most four outbound calls per dispatch, in the order
\* first stage, gpt-3.5-turbo, gpt-4, gpt-4-turbo-preview, and no call after
\* a call answered with 200.
C19_NoCallAfter200 ==
    /\ IsPrefixOfStages
    /\ \A i \in DOMAIN calls : Is200(calls[i].resp) => i = Len(calls)

\* C19 amended: at most four outbound calls per dispatch, a prefix of first
\* stage, gpt-3.5-turbo, gpt-4, gpt-4-turbo-preview with the first stage
\* always present; no call is made after a call answered with a readable
\* 200, and once the dispatcher has returned, every call but the last was
\* answered with something else than a readable 200.
C19_NoCallAfterReadable200 ==
    /\ Len(calls) <= 1 + Len(models_to_try)
    /\ \A i \in DOMAIN calls : Position(calls[i]) = i
    /\ \A i \in DOMAIN calls :
          IsReadable200(calls[i].resp) => i = Len(calls) /\ pc \in {"returned", "idle"}
    /\ (Dispatched /\ outcome.raised = "None" /\ ~outcome.success) =>
          Len(calls) \in {0, 1 + Len(models_to_try)}

C19_Witness ==
    /\ pc = "returned"
    /\ OPENAI_API_KEY = "sk-or-v1-abc"
    /\ Len(calls) = 3
    /\ calls[1].url = OPENROUTER_URL
    /\ Is200(calls[1].resp)
    /\ calls[2].resp.exc = "Timeout"
    /\ IsReadable200(calls[3].resp)
    /\ outcome.success

(***************************************************************************)
(* The dispatcher and the message store.                                   *)
(***************************************************************************)
\* the control points inside get_ai_response_external_only
InDispatcher == pc \in {"L163", "L169", "L175", "alt_loop", "L181"}

MaxChatRequests == 1
LongLen == 5001

RECURSIVE Repeat(_, _)
Repeat(s, n) ==
    IF n = 0 THEN ""
    ELSE IF n % 2 = 1 THEN s \o Repeat(s, n - 1)
    ELSE LET half == Repeat(s, n \div 2) IN half \o half

\* a text longer than message_pre_save lets through
LongText == Repeat("x", LongLen)

\* what a client posts: nothing, blanks, a question, a question with blanks
\* around it, a long text
ChatInputs == {"", "  ", "What is a tort?", " Is it? ", LongText}

\* what the provider does in SpecChat: a reply, an empty reply, a blank
\* reply, a long reply, a server error
ChatResponses ==
    { Resp("None", 200, TRUE, ReplyText, "{choices}"),
      Resp("None", 200, TRUE, "", "{choices}"),
      Resp("None", 200, TRUE, " \n", "{choices}"),
      Resp("None", 200, TRUE, LongText, "{choices}"),
      Resp("None", 500, FALSE, "", "Internal Server Error") }

\* chat_view answers an XMLHttpRequest with JSON and a form post with a
\* redirect to the chat page
ChatViewEntries == {"chat_view_ajax", "chat_view_form"}

Redirect == [status |-> 302, error |-> Absent, error_type |-> Absent, response |-> Absent, message_id |-> 0]

\* JsonResponse({...}): status 200 whatever the dict holds
JsonResponse(msg, kind, reply, id) ==
    [status |-> 200, error |-> msg, error_type |-> kind, response |-> reply, message_id |-> id]

\* chat_view lines 43-44 and 84-86: nothing is left of the message
ChatViewNoMessage ==
    \E who \in ChatViewEntries, msg \in ChatInputs :
        /\ BeginUpTo(MaxChatRequests, who, strip(msg))
        /\ ~truthy(strip(msg))
        /\ http' = IF who = "chat_view_ajax"
                   THEN JsonResponse("No message provided", Absent, Absent, 0)
                   ELSE Redirect
        /\ pc' = "idle"
        /\ UNCHANGED store

\* chat_view lines 46-54: the user turn is saved, then the missing key is
\* found and its message is saved as the assistant turn
ChatViewNoKey ==
    \E who \in ChatViewEntries, msg \in ChatInputs :
        /\ BeginUpTo(MaxChatRequests, who, strip(msg))
        /\ truthy(strip(msg))
        /\ ~truthy(OPENAI_API_KEY)
        /\ store' = create(create(store, "user", strip(msg)), "assistant", CONFIG_ERROR_MSG)
        /\ http' = IF who = "chat_view_ajax"
                   THEN JsonResponse(CONFIG_ERROR_MSG, Absent, Absent, 0)
                   ELSE Redirect
        /\ pc' = "idle"

\* chat_view lines 46-57: the user turn is saved and the dispatcher called
ChatViewDispatch ==
    \E who \in ChatViewEntries, msg \in ChatInputs :
        /\ BeginUpTo(MaxChatRequests, who, strip(msg))
        /\ truthy(strip(msg))
        /\ truthy(OPENAI_API_KEY)
        /\ store' = create(store, "user", strip(msg))
        /\ http' = NoHttp
        /\ pc' = "L163"

\* chat_view lines 59-86: save the assistant turn and answer
ChatViewRespond ==
    /\ pc = "returned"
    /\ entry \in ChatViewEntries
    /\ IF outcome.raised # "None"
       THEN /\ http' = HttpUnhandled
            /\ UNCHANGED store
       ELSE IF outcome.success
       THEN IF pre_save_raises(outcome.response)
            THEN /\ http' = HttpUnhandled
                 /\ UNCHANGED store
            ELSE /\ store' = create(store, "assistant", outcome.response)
                 /\ http' = IF entry = "chat_view_ajax"
                            THEN JsonResponse(Absent, Absent, outcome.response, Len(store) + 1)
                            ELSE Redirect
       ELSE /\ store' = create(store, "assistant", outcome.error)
            /\ http' = IF entry = "chat_view_ajax"
                       THEN JsonResponse(outcome.error,
                                IF outcome.error_type = Absent THEN "api_error" ELSE outcome.error_type,
                                Absent, 0)
                       ELSE Redirect
    /\ pc' = "idle"
    /\ UNCHANGED <<OPENAI_API_KEY, error_count, n_requests, entry, user_input,
                   model_idx, calls, notifications, stages, outcome>>
    /\ UNCHANGED <<store_at_entry, other_vars>>

NextChat ==
    \/ ChatApiInvalidOf(MaxChatRequests, ChatInputs)
    \/ ChatApiNoKeyOf(MaxChatRequests, ChatInputs)
    \/ ChatApiDispatchOf(MaxChatRequests, ChatInputs)
    \/ ChatViewNoMessage
    \/ ChatViewNoKey
    \/ ChatViewDispatch
    \/ TryOpenAIIn(ChatResponses)
    \/ SkipOpenAI
    \/ TryOpenRouterIn(ChatResponses)
    \/ SkipOpenRouter
    \/ EnterAlternative
    \/ AltAttemptIn(ChatResponses)
    \/ AllFailed
    \/ ChatApiRespond
    \/ ChatViewRespond

SpecChat == Init /\ [][NextChat]_vars

\* a chat request whose message the entry point accepted has finished
ChatRequestDone ==
    /\ pc = "idle"
    /\ entry \in ChatViewEntries \union {"chat_api"}
    /\ truthy(strip(user_input))
    /\ entry = "chat_api" => is_valid(user_input)

\* C11: chat_api answers every Success of the dispatcher with 200, the reply
\* and the id of the saved assistant turn, and every Failure with an error
\* response carrying the dispatcher's message and kind; no Success, whatever
\* its reply text, ends in an unhandled fault.
C11_DispatchOutcomeMapped ==
    (pc = "idle" /\ entry = "chat_api" /\ Dispatched /\ outcome.raised = "None") =>
        IF outcome.success
        THEN /\ http = HttpOk(outcome.response, store[Len(store)].id)
             /\ store[Len(store)].role = "assistant"
        ELSE /\ http = HttpError(500, outcome.error, outcome.error_type)
             /\ store[Len(store)].content = outcome.error

\* C12: every chat request with a non-empty message, through chat_view or
\* chat_api, adds two turns to the store, the user turn and then the
\* assistant turn; the user turn is in the store before the first outbound
\* call; with the credential absent the two entry points do the same.
C12_TwoTurnsPersisted ==
    /\ ChatRequestDone =>
          /\ Len(store) = Len(store_at_entry) + 2
          /\ SubSeq(store, 1, Len(store_at_entry)) = store_at_entry
          /\ store[Len(store) - 1].role = "user"
          /\ store[Len(store)].role = "assistant"
    /\ \A i \in DOMAIN calls :
          /\ Len(calls[i].messages) >= Len(store_at_entry) + 2
          /\ calls[i].messages[Len(store_at_entry) + 2].role = "user"

\* what message_pre_save leaves of a text it lets through
Truncated(text) ==
    IF Len(text) > MAX_CONTENT_LEN THEN SubSeq(text, 1, TRUNCATED_LEN) \o "..." ELSE text

\* C20: every stored turn has non-blank content of at most 5000 characters;
\* a save of blank content is refused with an error and leaves the store as
\* it was; content longer than 5000 characters is stored as its first 4997
\* characters followed by "...".
C20_StoreInvariant ==
    /\ \A i \in DOMAIN store :
          /\ store[i].content # ""
          /\ strip(store[i].content) # ""
          /\ Len(store[i].content) <= MAX_CONTENT_LEN
    /\ (pc = "idle" /\ Dispatched /\ outcome.success /\ strip(outcome.response) = "") =>
          /\ http = HttpUnhandled
          /\ store = create(store_at_entry, "user", user_input)
    /\ (pc = "idle" /\ Dispatched /\ outcome.success /\ strip(outcome.response) # "") =>
          /\ Len(store) = Len(store_at_entry) + 2
          /\ store[Len(store)].content = Truncated(outcome.response)
    /\ Len(store) > Len(store_at_entry) =>
          store[Len(store_at_entry) + 1].content = Truncated(user_input)

C20_Witness ==
    /\ pc = "idle"
    /\ entry = "chat_view_ajax"
    /\ Len(user_input) = LongLen
    /\ outcome = Success(LongText)
    /\ Len(store) = 2
    /\ Len(store[1].content) = MAX_CONTENT_LEN
    /\ store[2].content = SubSeq(LongText, 1, TRUNCATED_LEN) \o "..."
    /\ http.status = 200

(***************************************************************************)
(* Dispatch after dispatch: what one dispatch leaves to the next.          *)
(***************************************************************************)
\* dispatches made in a behaviour of SpecRepeat
MaxDispatches == 3

\* the provider answers with the reply or with a server error
RepeatResponses ==
    { Resp("None", 200, TRUE, ReplyText, "{choices}"),
      Resp("None", 500, FALSE, "", "Internal Server Error") }

RepeatInputs == {"What is a tort?"}

\* a server with a key, called through chat_api (the history grows) and
\* through get_ai_response (the history stays as it is)
InitRepeat ==
    /\ OPENAI_API_KEY \in {"sk-test123", "sk-or-v1-abc"}
    /\ InitRequest
    /\ InitThreads

NextRepeat ==
    \/ ChatApiDispatchOf(MaxDispatches, RepeatInputs)
    \/ GetAiResponseOf(MaxDispatches, RepeatInputs)
    \/ TryOpenAIIn(RepeatResponses)
    \/ SkipOpenAI
    \/ TryOpenRouterIn(RepeatResponses)
    \/ SkipOpenRouter
    \/ EnterAlternative
    \/ AltAttemptIn(RepeatResponses)
    \/ AllFailed
    \/ GetAiResponseReturn
    \/ ChatApiRespond

SpecRepeat == InitRepeat /\ [][NextRepeat]_vars

\* C13: whenever the Primary endpoint answers the first call of a dispatch
\* with 200 and the reply X, the dispatch returns Success with X after that
\* one call, whatever the number of dispatches made before and whatever the
\* error counters hold; the messages sent are those of the store alone.
C13_DispatchDeterministic ==
    \A n \in 0..MaxDispatches, failed \in 0..MaxDispatches :
        (/\ n_requests = n
         /\ error_count["all_apis_failed"] = failed
         /\ calls # <<>>
         /\ calls[1].url = OPENAI_URL
         /\ calls[1].stage = "try_openai_api"
         /\ IsReadable200(calls[1].resp)) =>
            /\ pc \in {"returned", "idle"}
            /\ outcome = Success(calls[1].resp.content)
            /\ Len(calls) = 1
            /\ notifications = <<>>
            /\ calls[1].messages = messages_for_gpt(IF pc = "idle" /\ entry = "chat_api"
                                                     THEN SubSeq(store, 1, Len(store) - 1)
                                                     ELSE store)

C13_Witness ==
    /\ pc = "returned"
    /\ entry = "get_ai_response"
    /\ n_requests = 3
    /\ store = <<>>
    /\ error_count["all_apis_failed"] = 2
    /\ error_count["api_error"] = 2
    /\ Len(calls) = 1
    /\ outcome = Success(ReplyText)

(***************************************************************************)
(* Two chat_api requests served at the same time by two threads, on the    *)
(* shared Message table and the shared cache.  The server has a standard   *)
(* key and the receiver of error_occurred runs to its end.                 *)
(***************************************************************************)
\* the message each thread's request carries
ConcInput == [t \in Threads |-> IF t = 1 THEN "What is a tort?" ELSE "What is a lease?"]

\* what the provider does: the reply, an authentication error, a timeout
ConcResponses ==
    { Resp("None", 200, TRUE, ReplyText, "{choices}"),
      Resp("None", 401, FALSE, "", "Unauthorized"),
      Resp("Timeout", 0, FALSE, "", "") }

\* the variables the threads do not touch
request_vars ==
    <<n_requests, entry, user_input, pc, model_idx, calls, notifications, stages,
      outcome, http, store_at_entry>>

rate_vars == <<rate_limit, mw, n_api, reached_view, rejected, last_request>>

InitConc ==
    /\ OPENAI_API_KEY = "sk-test123"
    /\ InitRequest
    /\ InitThreads

\* thread t starts delivering a notification of type kind and goes on at
\* `after` once the receiver is through
Deliver(t, w, kind, after) ==
    [w EXCEPT !.pc = "cache_get", !.pending = kind, !.after = after]

\* chat_api line 119: the user turn is saved
ConcSaveUserTurn(t) ==
    /\ workers[t].pc = "idle"
    /\ store' = create(store, "user", ConcInput[t])
    /\ workers' = [workers EXCEPT ![t].pc = "L163"]
    /\ UNCHANGED <<OPENAI_API_KEY, error_count, emitted, request_vars, rate_vars>>

\* try_openai_api: line 197 reads the Message table, line 221 posts; the
\* status branches send error_occurred before they return
ConcTryOpenAI(t) ==
    /\ workers[t].pc = "L163"
    /\ \E resp \in ConcResponses :
        LET result == try_openai_api(resp, "ok")
            w == [workers[t] EXCEPT !.sent = Append(@, messages_for_gpt(store)),
                                    !.request_messages = messages_for_gpt(store),
                                    !.result = result]
        IN  workers' = [workers EXCEPT ![t] =
                IF attempt_sends(resp)
                THEN Deliver(t, w, status_error_type(resp.status), "L175")
                ELSE IF returns_early(result)
                THEN [w EXCEPT !.pc = "respond"]
                ELSE [w EXCEPT !.pc = "L175"]]
    /\ UNCHANGED <<OPENAI_API_KEY, store, error_count, emitted, request_vars, rate_vars>>

\* handle_error_occurred line 97: cache.get of the counter
ConcCacheGet(t) ==
    /\ workers[t].pc = "cache_get"
    /\ workers' = [workers EXCEPT ![t].read = error_count[workers[t].pending],
                                  ![t].pc = "cache_set"]
    /\ emitted' = [emitted EXCEPT ![workers[t].pending] = @ + 1]
    /\ UNCHANGED <<OPENAI_API_KEY, store, error_count, request_vars, rate_vars>>

\* handle_error_occurred line 98: cache.set of the value read plus one
ConcCacheSet(t) ==
    /\ workers[t].pc = "cache_set"
    /\ error_count' = [error_count EXCEPT ![workers[t].pending] = workers[t].read + 1]
    /\ workers' = [workers EXCEPT ![t].pc = workers[t].after,
                                  ![t].pending = Absent,
                                  ![t].after = Absent]
    /\ UNCHANGED <<OPENAI_API_KEY, store, emitted, request_vars, rate_vars>>

\* try_alternative_openai_api line 345: the Message table is read once,
\* before the loop
ConcEnterAlternative(t) ==
    /\ workers[t].pc = "L175"
    /\ workers' = [workers EXCEPT ![t].request_messages = messages_for_gpt(store),
                                  ![t].model_idx = 1,
                                  ![t].pc = "alt_loop"]
    /\ UNCHANGED <<OPENAI_API_KEY, store, error_count, emitted, request_vars, rate_vars>>

\* one iteration of the loop over models_to_try; after the last model the
\* dispatcher sends all_apis_failed and returns its Failure
ConcAltAttempt(t) ==
    /\ workers[t].pc = "alt_loop"
    /\ \E resp \in ConcResponses :
        LET w == [workers[t] EXCEPT !.sent = Append(@, workers[t].request_messages)]
        IN  workers' = [workers EXCEPT ![t] =
                IF alt_iteration(resp) = "return"
                THEN [w EXCEPT !.result = Success(resp.content), !.pc = "respond"]
                ELSE IF w.model_idx < Len(models_to_try)
                THEN [w EXCEPT !.model_idx = @ + 1]
                ELSE Deliver(t, [w EXCEPT !.result = Failure(ALL_FAILED_MSG, "all_apis_failed")],
                             "all_apis_failed", "respond")]
    /\ UNCHANGED <<OPENAI_API_KEY, store, error_count, emitted, request_vars, rate_vars>>

\* chat_api lines 124-149: the assistant turn is saved and the answer given
ConcRespond(t) ==
    /\ workers[t].pc = "respond"
    /\ LET result == workers[t].result IN
        IF result.success
        THEN /\ store' = create(store, "assistant", result.response)
             /\ workers' = [workers EXCEPT ![t].pc = "done",
                                           ![t].http = HttpOk(result.response, Len(store) + 1)]
        ELSE /\ store' = create(store, "assistant", result.error)
             /\ workers' = [workers EXCEPT ![t].pc = "done",
                                           ![t].http = HttpError(500, result.error, result.error_type)]
    /\ UNCHANGED <<OPENAI_API_KEY, error_count, emitted, request_vars, rate_vars>>

NextConc ==
    \E t \in Threads :
        \/ ConcSaveUserTurn(t)
        \/ ConcTryOpenAI(t)
        \/ ConcCacheGet(t)
        \/ ConcCacheSet(t)
        \/ ConcEnterAlternative(t)
        \/ ConcAltAttempt(t)
        \/ ConcRespond(t)

SpecConc == InitConc /\ [][NextConc]_vars

\* the user turn of thread t's request, as it is sent to a provider
OwnTurn(t) == [role |-> "user", content |-> ConcInput[t]]

\* C15: every outbound request carries the system instruction first, then
\* the stored turns in the order they were saved, with the user turn of the
\* request itself as the last element; all the attempts of one dispatch send
\* the same messages.
C15_HistoryEndsWithOwnTurn ==
    \A t \in Threads :
        \A i \in DOMAIN workers[t].sent :
            LET h == workers[t].sent[i] IN
            /\ h[1] = system_prompt
            /\ \E n \in 1..Len(store) : h = messages_for_gpt(SubSeq(store, 1, n))
            /\ h[Len(h)] = OwnTurn(t)
            /\ \A j \in DOMAIN workers[t].sent : workers[t].sent[j] = h

\* the histories a request sends when the two requests are served one after
\* the other: its own user turn alone, or that turn after the two turns of
\* the other request
SequentialHistory(t, h) ==
    /\ h[1] = system_prompt
    /\ h[Len(h)] = OwnTurn(t)
    /\ \/ Len(h) = 2
       \/ /\ Len(h) = 4
          /\ \E o \in Threads \ {t} : h[2] = OwnTurn(o)
          /\ h[3].role = "assistant"

\* C17: two chat requests served at the same time send the histories and
\* record the error statistics they would when served one after the other:
\* one count per notification, none lost.
C17_ConcurrentAsSequential ==
    /\ \A t \in Threads :
          \A i \in DOMAIN workers[t].sent : SequentialHistory(t, workers[t].sent[i])
    /\ (\A t \in Threads : workers[t].pc # "cache_set") =>
          \A k \in ErrorTypes : error_count[k] = emitted[k]

\* the part of C17 about the statistics alone
C17_NoLostCount ==
    (\A t \in Threads : workers[t].pc = "done") =>
        \A k \in ErrorTypes : error_count[k] = emitted[k]

(***************************************************************************)
(* RateLimitingMiddleware.process_request (middleware.py lines 130-148),   *)
(* run by the threads of the server for the requests of one client IP      *)
(* within one lifetime of its cache entry.                                 *)
(***************************************************************************)
\* line 140: if request_count >= 100
RATE_LIMIT == 100

\* /api/ requests of the client that were served one after the other before
\* the behaviours of SpecRate begin, and /api/ requests that have entered
\* the middleware when they end
AlreadyServed == 97
MaxApiRequests == 102

API_PREFIX == "/api/"

\* the paths requested
Paths == {"/api/chat/", "/", "/api-docs/"}

chat_vars ==
    <<OPENAI_API_KEY, store, error_count, request_vars, workers, emitted>>

\* the middleware let the request through to the view
Passed(path, counted) == [path |-> path, status |-> 0, error_type |-> Absent, counted |-> counted]

\* lines 141-145: JsonResponse(..., status=429)
TooManyRequests(path) == [path |-> path, status |-> 429, error_type |-> "rate_limit", counted |-> FALSE]

\* line 132 not taken: the path is not under /api/, process_request returns
\* None and the request goes on
MwOtherPath(t) ==
    /\ mw[t].pc = "idle"
    /\ \E path \in Paths :
        /\ ~startswith(path, API_PREFIX)
        /\ last_request' = Passed(path, FALSE)
    /\ UNCHANGED <<rate_limit, mw, n_api, reached_view, rejected, chat_vars>>

\* lines 132-140: cache.get of the client's counter, found below the limit
MwCacheGet(t) ==
    /\ mw[t].pc = "idle"
    /\ n_api < MaxApiRequests
    /\ \E path \in Paths :
        /\ startswith(path, API_PREFIX)
        /\ ~(rate_limit >= RATE_LIMIT)
        /\ mw' = [mw EXCEPT ![t] = [pc |-> "L148", request_count |-> rate_limit]]
        /\ n_api' = n_api + 1
    /\ UNCHANGED <<rate_limit, reached_view, rejected, last_request, chat_vars>>

\* lines 132-145: cache.get of the client's counter, found at the limit: the
\* middleware answers 429 itself
MwReject(t) ==
    /\ mw[t].pc = "idle"
    /\ n_api < MaxApiRequests
    /\ \E path \in Paths :
        /\ startswith(path, API_PREFIX)
        /\ rate_limit >= RATE_LIMIT
        /\ n_api' = n_api + 1
        /\ rejected' = rejected + 1
        /\ last_request' = TooManyRequests(path)
    /\ UNCHANGED <<rate_limit, mw, reached_view, chat_vars>>

\* line 148: cache.set of the value read plus one; process_request returns
\* None and the request reaches the view
MwCacheSet(t) ==
    /\ mw[t].pc = "L148"
    /\ rate_limit' = mw[t].request_count + 1
    /\ reached_view' = reached_view + 1
    /\ last_request' = Passed("/api/chat/", TRUE)
    /\ mw' = [mw EXCEPT ![t] = IdleMw]
    /\ UNCHANGED <<n_api, rejected, chat_vars>>

NextRate ==
    \E t \in Threads :
        \/ MwOtherPath(t)
        \/ MwCacheGet(t)
        \/ MwReject(t)
        \/ MwCacheSet(t)

\* the client's counter after AlreadyServed requests, each of which ran
\* lines 136-148 alone: every one was let through and counted
InitRate ==
    /\ OPENAI_API_KEY = "sk-test123"
    /\ InitRequest
    /\ workers = [t \in Threads |-> IdleWorker]
    /\ emitted = [k \in ErrorTypes |-> 0]
    /\ AlreadyServed < RATE_LIMIT
    /\ rate_limit = AlreadyServed
    /\ n_api = AlreadyServed
    /\ reached_view = AlreadyServed
    /\ rejected = 0
    /\ mw = [t \in Threads |-> IdleMw]
    /\ last_request = IF AlreadyServed > 0 THEN Passed("/api/chat/", TRUE) ELSE NoRequest

SpecRate == InitRate /\ [][NextRate]_vars

\* C18: of the requests of one client IP to paths under /api/ within one
\* cache window, at most 100 reach the view, in any order or interleaving;
\* every further one is answered 429 rate_limit; a rejected request leaves
\* the counter as it is; other paths are neither counted nor rejected.
C18_AtMost100ReachView ==
    /\ reached_view <= RATE_LIMIT
    /\ rejected > 0 => reached_view + Cardinality({t \in Threads : mw[t].pc = "L148"}) >= RATE_LIMIT
    /\ last_request.status = 429 => startswith(last_request.path, API_PREFIX)
    /\ last_request.counted => startswith(last_request.path, API_PREFIX)

====
